---------------------------- MODULE Spec2Model ----------------------------
(* A model of src/src/device.rs: printer discovery on the USB bus           *)
(* (find_print_device, find_write_endpoint), construction of the Usb        *)
(* transport (Usb::new) and its io::Write implementation (write, flush).    *)
EXTENDS Integers, Sequences, FiniteSets, TLC

VARIABLES
    bus,            \* the devices yielded by context.devices(), in enumeration order
    pc,             \* "start" before Usb::new, "ready" after it, "panicked" after an unwrap() on an error
    vendor_id,      \* Usb._vendor_id   : Option<u16>
    product_id,     \* Usb._product_id  : Option<u16>
    device_handle,  \* Usb.device_handle: Option<DeviceHandle>
    write_endpoint, \* Usb.write_endpoint: Option<Endpoint>
    stream,         \* Usb.stream       : Vec<u8>
    trace,          \* the write/flush calls made so far, each with its argument, its result and the device operations it issued
    panic,          \* the call whose result an unwrap() found to be an error, None while there was none
    sink            \* a Network or File sink: its kind and the calls made on it, each with what the underlying stream saw

vars == <<bus, pc, vendor_id, product_id, device_handle, write_endpoint, stream, trace,
          panic, sink>>

-----------------------------------------------------------------------------
(* Bounds of the model.                                                     *)

\* most interface descriptors of the one device of a single-device bus
MaxDesc == 2
\* most devices on a bus of several (single-descriptor) devices
MaxDevices == 2
\* most write/flush calls made on one transport
MaxCalls == 4

-----------------------------------------------------------------------------
(* Option<T>: None is the empty tuple, Some(x) the one-element tuple.       *)

None == <<>>
Some(x) == <<x>>
IsSome(o) == o # None
Unwrap(o) == o[1]

\* the USB printer device class tested by find_print_device
PrinterClass == 7

-----------------------------------------------------------------------------
(* The bus topologies the scan is run on.  A device is                      *)
(*   [readable, vendor_id, product_id, configs]                             *)
(* (readable: device_descriptor() is Ok), a configuration is                *)
(*   [readable, number, interfaces]                                         *)
(* (readable: config_descriptor(n) is Ok), an interface is the sequence of  *)
(* its interface descriptors (one per alternate setting), an interface      *)
(* descriptor is [class_code, interface_number, setting_number,             *)
(* endpoint_descriptors] and an endpoint descriptor is                      *)
(* [address, direction, transfer_type].                                     *)

EpIn      == [address |-> 129, direction |-> "In",  transfer_type |-> "Bulk"]
EpOutBulk == [address |-> 1,   direction |-> "Out", transfer_type |-> "Bulk"]
EpOutIntr == [address |-> 2,   direction |-> "Out", transfer_type |-> "Interrupt"]

EndpointLists == { <<>>, <<EpIn, EpOutBulk>>, <<EpOutIntr, EpOutBulk>> }

\* A device is drawn as the list of its interface descriptors in enumeration
\* order; each says whether it opens a new configuration (readable or not), a
\* new interface of the current configuration, or a further alternate setting
\* of the current interface.
FlatDescs ==
    [mark : {"config", "config_unreadable", "iface", "alt"},
     class_code : {PrinterClass, 255},
     eps : EndpointLists]

FlatDevices(k) ==
    UNION { { f \in [1..n -> FlatDescs] : f[1].mark \in {"config", "config_unreadable"} }
            : n \in 1..k }

Last(s) == s[Len(s)]
ReplaceLast(s, x) == [s EXCEPT ![Len(s)] = x]

MkDesc(d, i, s) ==
    [class_code |-> d.class_code, interface_number |-> i, setting_number |-> s,
     endpoint_descriptors |-> d.eps]

RECURSIVE Nest(_, _)
Nest(flat, configs) ==
    IF flat = <<>> THEN configs
    ELSE LET d == Head(flat) IN
         IF d.mark \in {"config", "config_unreadable"}
         THEN Nest(Tail(flat),
                   Append(configs, [readable |-> d.mark = "config",
                                    number |-> Len(configs) + 1,
                                    interfaces |-> << <<MkDesc(d, 0, 0)>> >>]))
         ELSE LET c == Last(configs) IN
              IF d.mark = "iface"
              THEN Nest(Tail(flat),
                        ReplaceLast(configs,
                            [c EXCEPT !.interfaces =
                                Append(@, <<MkDesc(d, Len(@), 0)>>)]))
              ELSE Nest(Tail(flat),
                        ReplaceLast(configs,
                            [c EXCEPT !.interfaces =
                                ReplaceLast(@, Append(Last(@),
                                    MkDesc(d, Len(@) - 1, Len(Last(@)))))]))

Devices(k) ==
    { [readable |-> r, vendor_id |-> v, product_id |-> 514, configs |-> Nest(f, <<>>)]
      : r \in BOOLEAN, v \in {1208}, f \in FlatDevices(k) }

\* buses of one device with up to MaxDesc interface descriptors
SingleDeviceBuses == { <<d>> : d \in { x \in Devices(MaxDesc) : x.readable } }

\* buses of up to MaxDevices devices of one interface descriptor each, the
\* d-th device with a vendor id of its own
MultiDeviceBuses ==
    UNION { { [d \in 1..n |-> [f[d] EXCEPT !.vendor_id = 1208 + d]]
              : f \in [1..n -> Devices(1)] }
            : n \in 0..MaxDevices }

ScanBuses == SingleDeviceBuses \cup MultiDeviceBuses

-----------------------------------------------------------------------------
(* Descriptor access (the libusb calls of the scan).                        *)

\* device.device_descriptor(): Ok(descriptor) or Err
device_descriptor(device) ==
    IF device.readable
    THEN Some([num_configurations |-> Len(device.configs),
               vendor_id |-> device.vendor_id,
               product_id |-> device.product_id])
    ELSE None

\* device.config_descriptor(n), n counted from 0: Ok(descriptor) or Err
config_descriptor(device, n) ==
    IF device.configs[n + 1].readable THEN Some(device.configs[n + 1]) ELSE None

-----------------------------------------------------------------------------
(* find_print_device: the first device with an interface descriptor of the  *)
(* printer class.                                                           *)

\* the loops over n, interface and interface_desc of find_print_device:
\* whether they reach the return
has_printer_interface(device, device_desc) ==
    \E n \in 0..(device_desc.num_configurations - 1) :
        LET c == config_descriptor(device, n) IN
        /\ IsSome(c)
        /\ \E i \in 1..Len(Unwrap(c).interfaces) :
             \E s \in 1..Len(Unwrap(c).interfaces[i]) :
                Unwrap(c).interfaces[i][s].class_code = PrinterClass

\* the device loop as it would be if a match did not return but was
\* overwritten by a later one
RECURSIVE scan_devices_last(_, _)
scan_devices_last(devices, d) ==
    IF d > Len(devices) THEN None
    ELSE LET device == devices[d]
             desc == device_descriptor(device)
             later == scan_devices_last(devices, d + 1)
         IN  IF desc = None THEN later
             ELSE IF IsSome(later) THEN later
             ELSE IF has_printer_interface(device, Unwrap(desc))
                  THEN Some(<<device, Unwrap(desc)>>)
                  ELSE None

\* the device loop as it would be if an unreadable device descriptor ended
\* the scan instead of moving on to the next device
RECURSIVE scan_devices_stop_on_error(_, _)
scan_devices_stop_on_error(devices, d) ==
    IF d > Len(devices) THEN None
    ELSE LET device == devices[d]
             desc == device_descriptor(device)
         IN  IF desc = None THEN None
             ELSE IF has_printer_interface(device, Unwrap(desc))
                  THEN Some(<<device, Unwrap(desc)>>)
                  ELSE scan_devices_stop_on_error(devices, d + 1)

\* the loop over context.devices(), from the d-th device on
RECURSIVE scan_devices(_, _)
scan_devices(devices, d) ==
    IF d > Len(devices) THEN None
    ELSE LET device == devices[d]
             desc == device_descriptor(device)
         IN  IF desc = None THEN scan_devices(devices, d + 1)
             ELSE IF has_printer_interface(device, Unwrap(desc))
                  THEN Some(<<device, Unwrap(desc)>>)
                  ELSE scan_devices(devices, d + 1)

find_print_device(devices) == scan_devices(devices, 1)

-----------------------------------------------------------------------------
(* find_write_endpoint: the four nested loops, each returning at the first  *)
(* endpoint descriptor whose direction is Out.                              *)

\* the Endpoint value built at the match
Endpoint(config_desc, interface_desc, endpoint_desc) ==
    [config  |-> config_desc.number,
     iface   |-> interface_desc.interface_number,
     setting |-> interface_desc.setting_number,
     address |-> endpoint_desc.address]

\* the endpoint loop as it would be if it also required a bulk endpoint
RECURSIVE scan_endpoint_descs_bulk_only(_, _, _, _)
scan_endpoint_descs_bulk_only(device_desc, config_desc, interface_desc, e) ==
    IF e > Len(interface_desc.endpoint_descriptors) THEN None
    ELSE LET endpoint_desc == interface_desc.endpoint_descriptors[e] IN
         IF endpoint_desc.direction = "Out" /\ endpoint_desc.transfer_type = "Bulk"
         THEN Some(<<Endpoint(config_desc, interface_desc, endpoint_desc),
                     device_desc.vendor_id, device_desc.product_id>>)
         ELSE scan_endpoint_descs_bulk_only(device_desc, config_desc, interface_desc, e + 1)

\* for endpoint_desc in interface_desc.endpoint_descriptors(), from the e-th on
RECURSIVE scan_endpoint_descs(_, _, _, _)
scan_endpoint_descs(device_desc, config_desc, interface_desc, e) ==
    IF e > Len(interface_desc.endpoint_descriptors) THEN None
    ELSE LET endpoint_desc == interface_desc.endpoint_descriptors[e] IN
         IF endpoint_desc.direction = "Out"
         THEN Some(<<Endpoint(config_desc, interface_desc, endpoint_desc),
                     device_desc.vendor_id, device_desc.product_id>>)
         ELSE scan_endpoint_descs(device_desc, config_desc, interface_desc, e + 1)

\* for interface_desc in interface.descriptors(), from the s-th on
RECURSIVE scan_interface_descs(_, _, _, _)
scan_interface_descs(device_desc, config_desc, interface, s) ==
    IF s > Len(interface) THEN None
    ELSE LET r == scan_endpoint_descs(device_desc, config_desc, interface[s], 1) IN
         IF IsSome(r) THEN r
         ELSE scan_interface_descs(device_desc, config_desc, interface, s + 1)

\* for interface in config_desc.interfaces(), from the i-th on
RECURSIVE scan_interfaces(_, _, _)
scan_interfaces(device_desc, config_desc, i) ==
    IF i > Len(config_desc.interfaces) THEN None
    ELSE LET r == scan_interface_descs(device_desc, config_desc,
                                       config_desc.interfaces[i], 1) IN
         IF IsSome(r) THEN r
         ELSE scan_interfaces(device_desc, config_desc, i + 1)

\* for n in 0..device_desc.num_configurations(), from n on
RECURSIVE scan_configs(_, _, _)
scan_configs(device, device_desc, n) ==
    IF n >= device_desc.num_configurations THEN None
    ELSE LET c == config_descriptor(device, n) IN
         IF c = None THEN scan_configs(device, device_desc, n + 1)
         ELSE LET r == scan_interfaces(device_desc, Unwrap(c), 1) IN
              IF IsSome(r) THEN r
              ELSE scan_configs(device, device_desc, n + 1)

find_write_endpoint(device, device_desc) == scan_configs(device, device_desc, 0)

find_print_endpoint(devices) ==
    LET found == find_print_device(devices) IN
    IF found = None THEN None
    ELSE find_write_endpoint(Unwrap(found)[1], Unwrap(found)[2])

-----------------------------------------------------------------------------
(* Usb::new.  devices_ok: context.devices() is Ok; open_ok:                 *)
(* open_device_with_vid_pid returns a handle.  Both results are unwrapped,  *)
(* so either failure panics and no transport is built.                      *)

NoUsb ==
    [pc |-> "start", panic |-> None, vendor_id |-> None, product_id |-> None,
     device_handle |-> None, write_endpoint |-> None, stream |-> <<>>]

\* Usb::new as it would be if it opened the device but stored no endpoint
Usb_new_without_endpoint(devices, devices_ok, open_ok) ==
    IF ~devices_ok
    THEN [NoUsb EXCEPT !.pc = "panicked", !.panic = Some("devices")]
    ELSE LET found == find_print_endpoint(devices) IN
         IF found = None
         THEN [NoUsb EXCEPT !.pc = "ready"]
         ELSE IF ~open_ok
              THEN [NoUsb EXCEPT !.pc = "panicked",
                                 !.panic = Some("open_device_with_vid_pid")]
              ELSE [pc |-> "ready",
                    panic |-> None,
                    vendor_id |-> Some(Unwrap(found)[2]),
                    product_id |-> Some(Unwrap(found)[3]),
                    device_handle |-> Some([vendor_id |-> Unwrap(found)[2],
                                            product_id |-> Unwrap(found)[3]]),
                    write_endpoint |-> None,
                    stream |-> <<>>]

\* Usb::new as it would be if it unwrapped the result of discovery
Usb_new_requiring_printer(devices, devices_ok, open_ok) ==
    IF ~devices_ok
    THEN [NoUsb EXCEPT !.pc = "panicked", !.panic = Some("devices")]
    ELSE LET found == find_print_endpoint(devices) IN
         IF found = None
         THEN [NoUsb EXCEPT !.pc = "panicked", !.panic = Some("find_print_endpoint")]
         ELSE IF ~open_ok
              THEN [NoUsb EXCEPT !.pc = "panicked",
                                 !.panic = Some("open_device_with_vid_pid")]
              ELSE [pc |-> "ready",
                    panic |-> None,
                    vendor_id |-> Some(Unwrap(found)[2]),
                    product_id |-> Some(Unwrap(found)[3]),
                    device_handle |-> Some([vendor_id |-> Unwrap(found)[2],
                                            product_id |-> Unwrap(found)[3]]),
                    write_endpoint |-> Some(Unwrap(found)[1]),
                    stream |-> <<>>]

Usb_new(devices, devices_ok, open_ok) ==
    IF ~devices_ok
    THEN [NoUsb EXCEPT !.pc = "panicked", !.panic = Some("devices")]
    ELSE LET found == find_print_endpoint(devices) IN
         IF found = None
         THEN [NoUsb EXCEPT !.pc = "ready"]
         ELSE IF ~open_ok
              THEN [NoUsb EXCEPT !.pc = "panicked",
                                 !.panic = Some("open_device_with_vid_pid")]
              ELSE [pc |-> "ready",
                    panic |-> None,
                    vendor_id |-> Some(Unwrap(found)[2]),
                    product_id |-> Some(Unwrap(found)[3]),
                    device_handle |-> Some([vendor_id |-> Unwrap(found)[2],
                                            product_id |-> Unwrap(found)[3]]),
                    write_endpoint |-> Some(Unwrap(found)[1]),
                    stream |-> <<>>]

UsbNew ==
    /\ pc = "start"
    /\ \E devices_ok \in BOOLEAN, open_ok \in BOOLEAN :
         LET usb == Usb_new(bus, devices_ok, open_ok) IN
         /\ pc' = usb.pc
         /\ panic' = usb.panic
         /\ vendor_id' = usb.vendor_id
         /\ product_id' = usb.product_id
         /\ device_handle' = usb.device_handle
         /\ write_endpoint' = usb.write_endpoint
         /\ stream' = usb.stream
    /\ UNCHANGED <<bus, trace, sink>>

-----------------------------------------------------------------------------
(* The device operations of a flush.  Each is recorded with the arguments   *)
(* it was called with and whether the device reported success.              *)

OpReset(ok) == [op |-> "reset", ok |-> ok]
OpSetActiveConfiguration(config, ok) ==
    [op |-> "set_active_configuration", config |-> config, ok |-> ok]
OpClaimInterface(iface, ok) == [op |-> "claim_interface", iface |-> iface, ok |-> ok]
OpSetAlternateSetting(iface, setting, ok) ==
    [op |-> "set_alternate_setting", iface |-> iface, setting |-> setting, ok |-> ok]
\* bulk is the device's answer: [ok |-> TRUE, n |-> bytes transferred] or [ok |-> FALSE, n |-> 0]
OpWriteBulk(address, data, bulk) ==
    [op |-> "write_bulk", address |-> address, data |-> data, ok |-> bulk.ok, n |-> bulk.n]

\* configure_endpoint as it would be without the try! around its calls: every
\* call is made and Ok(()) is returned
configure_endpoint_unchecked(endpoint, cfg_ok) ==
    [ok |-> TRUE,
     ops |-> <<OpSetActiveConfiguration(endpoint.config, cfg_ok[1]),
               OpClaimInterface(endpoint.iface, cfg_ok[2]),
               OpSetAlternateSetting(endpoint.iface, endpoint.setting, cfg_ok[3])>>]

\* configure_endpoint: three calls, each under try!, so the first failure
\* returns.  cfg_ok[k] is whether the k-th call would succeed.
configure_endpoint(endpoint, cfg_ok) ==
    LET a == OpSetActiveConfiguration(endpoint.config, cfg_ok[1])
        b == OpClaimInterface(endpoint.iface, cfg_ok[2])
        c == OpSetAlternateSetting(endpoint.iface, endpoint.setting, cfg_ok[3])
    IN  IF ~cfg_ok[1] THEN [ok |-> FALSE, ops |-> <<a>>]
        ELSE IF ~cfg_ok[2] THEN [ok |-> FALSE, ops |-> <<a, b>>]
        ELSE IF ~cfg_ok[3] THEN [ok |-> FALSE, ops |-> <<a, b, c>>]
        ELSE [ok |-> TRUE, ops |-> <<a, b, c>>]

-----------------------------------------------------------------------------
(* impl io::Write for Usb.  Results: <<"Ok", n>> for write, <<"Ok">> and    *)
(* <<"Err">> for flush, <<"panic">> when an unwrap() meets an error.        *)

\* write as it would be if it replaced the stream instead of extending it
write_replacing(self_stream, buf) ==
    [stream |-> buf, ret |-> <<"Ok", Len(buf)>>, ops |-> <<>>]

\* write: extend the stream, return Ok(buf.len())
write(self_stream, buf) ==
    [stream |-> self_stream \o buf, ret |-> <<"Ok", Len(buf)>>, ops |-> <<>>]

\* the arms as they would be if they returned an error for the missing printer
no_printer_err(ops) == [stream |-> <<>>, ret |-> <<"Err">>, ops |-> ops]

\* the two "didn't find a printer" arms of flush: drop the stream, Ok(()).
\* ops are the device operations issued before the arm was reached.
no_printer(ops) == [stream |-> <<>>, ret |-> <<"Ok">>, ops |-> ops]

\* the Err arm of configure_endpoint in flush: drop the stream, Err
configure_failed(ops) == [stream |-> <<>>, ret |-> <<"Err">>, ops |-> ops]

\* transfer as it would be if the bytes a short write_bulk left over were
\* kept for the next flush
transfer_keeping_remainder(endpoint, self_stream, bulk, ops) ==
    [stream |-> IF bulk.ok THEN SubSeq(self_stream, bulk.n + 1, Len(self_stream))
                ELSE <<>>,
     ret |-> IF bulk.ok THEN <<"Ok">> ELSE <<"Err">>,
     ops |-> Append(ops, OpWriteBulk(endpoint.address, self_stream, bulk))]

\* transfer as it would be if a failed write_bulk kept the stream for the next flush
transfer_keeping_on_error(endpoint, self_stream, bulk, ops) ==
    [stream |-> IF bulk.ok THEN <<>> ELSE self_stream,
     ret |-> IF bulk.ok THEN <<"Ok">> ELSE <<"Err">>,
     ops |-> Append(ops, OpWriteBulk(endpoint.address, self_stream, bulk))]

\* transfer as it would be if it addressed the interface number instead of
\* the endpoint address
transfer_to_iface(endpoint, self_stream, bulk, ops) ==
    [stream |-> <<>>,
     ret |-> IF bulk.ok THEN <<"Ok">> ELSE <<"Err">>,
     ops |-> Append(ops, OpWriteBulk(endpoint.iface, self_stream, bulk))]

\* the Ok arm of configure_endpoint in flush: one write_bulk of the whole
\* stream to endpoint.address; the stream is dropped on Ok(n) and on Err
transfer(endpoint, self_stream, bulk, ops) ==
    [stream |-> <<>>,
     ret |-> IF bulk.ok THEN <<"Ok">> ELSE <<"Err">>,
     ops |-> Append(ops, OpWriteBulk(endpoint.address, self_stream, bulk))]

\* flush as it would be if it returned at once when nothing is buffered
flush_skipping_empty(self_device_handle, self_write_endpoint, self_stream, reset_ok, cfg_ok, bulk) ==
    IF self_device_handle = None \/ self_stream = <<>> THEN no_printer(<<>>)
    ELSE IF ~reset_ok
    THEN [stream |-> self_stream, ret |-> <<"panic">>, ops |-> <<OpReset(FALSE)>>]
    ELSE IF self_write_endpoint = None THEN no_printer(<<OpReset(TRUE)>>)
    ELSE LET endpoint == Unwrap(self_write_endpoint)
             configured == configure_endpoint(endpoint, cfg_ok)
             ops == <<OpReset(TRUE)>> \o configured.ops
         IN  IF configured.ok
             THEN transfer(endpoint, self_stream, bulk, ops)
             ELSE configure_failed(ops)

\* flush.  reset_ok, cfg_ok and bulk are the answers the device would give.
flush(self_device_handle, self_write_endpoint, self_stream, reset_ok, cfg_ok, bulk) ==
    IF self_device_handle = None THEN no_printer(<<>>)
    ELSE IF ~reset_ok
    THEN \* handle.reset().unwrap() panics; self.stream has not been assigned
         [stream |-> self_stream, ret |-> <<"panic">>, ops |-> <<OpReset(FALSE)>>]
    ELSE IF self_write_endpoint = None THEN no_printer(<<OpReset(TRUE)>>)
    ELSE LET endpoint == Unwrap(self_write_endpoint)
             configured == configure_endpoint(endpoint, cfg_ok)
             ops == <<OpReset(TRUE)>> \o configured.ops
         IN  IF configured.ok
             THEN transfer(endpoint, self_stream, bulk, ops)
             ELSE configure_failed(ops)

-----------------------------------------------------------------------------
(* The callers' inputs and the device's answers.                            *)

\* the byte sequences passed to write: none, one byte, two bytes
Bufs == { <<>>, <<10>>, <<27, 64>> }

\* what write_bulk may report for a payload: an error, or a count of bytes
\* transferred (all of them, one less, or none)
BulkResults(payload) ==
    {[ok |-> FALSE, n |-> 0]}
    \cup {[ok |-> TRUE, n |-> n] : n \in {0, Len(payload) - 1, Len(payload)} \cap Nat}

CfgResults == [1..3 -> BOOLEAN]

Call(name, buf, r) == [call |-> name, buf |-> buf, ret |-> r.ret, ops |-> r.ops]

UsbWrite ==
    /\ pc = "ready"
    /\ Len(trace) < MaxCalls
    /\ \E buf \in Bufs :
         LET r == write(stream, buf) IN
         /\ stream' = r.stream
         /\ trace' = Append(trace, Call("write", buf, r))
    /\ UNCHANGED <<bus, pc, vendor_id, product_id, device_handle, write_endpoint,
                   panic, sink>>

UsbFlush ==
    /\ pc = "ready"
    /\ Len(trace) < MaxCalls
    /\ \E reset_ok \in BOOLEAN, cfg_ok \in CfgResults, bulk \in BulkResults(stream) :
         LET r == flush(device_handle, write_endpoint, stream, reset_ok, cfg_ok, bulk) IN
         /\ stream' = r.stream
         /\ trace' = Append(trace, Call("flush", <<>>, r))
         /\ pc' = IF r.ret = <<"panic">> THEN "panicked" ELSE "ready"
         /\ panic' = IF r.ret = <<"panic">> THEN Some("reset") ELSE panic
    /\ UNCHANGED <<bus, vendor_id, product_id, device_handle, write_endpoint, sink>>

-----------------------------------------------------------------------------
(* Specifications.                                                          *)

\* no Network or File sink is in use
NoSink == [kind |-> "none", trace |-> <<>>]

InitUsb ==
    /\ pc = NoUsb.pc
    /\ panic = NoUsb.panic
    /\ sink = NoSink
    /\ vendor_id = NoUsb.vendor_id
    /\ product_id = NoUsb.product_id
    /\ device_handle = NoUsb.device_handle
    /\ write_endpoint = NoUsb.write_endpoint
    /\ stream = NoUsb.stream
    /\ trace = <<>>

\* the buses a transport is built on and then written to: no device, or one
\* readable device with one interface descriptor
TransportBuses == {<<>>} \cup { <<d>> : d \in { x \in Devices(1) : x.readable } }

Init == bus \in TransportBuses /\ InitUsb

Next == UsbNew \/ UsbWrite \/ UsbFlush

Spec == Init /\ [][Next]_vars

\* discovery and construction alone, over the larger family of buses
InitScan == bus \in ScanBuses /\ InitUsb

NextScan == UsbNew

SpecScan == InitScan /\ [][NextScan]_vars

-----------------------------------------------------------------------------
(* impl io::Write for Network and for File<W>.  The underlying stream       *)
(* (self.stream, self.fobj) answers a write with <<"Ok", n>> or <<"Err">>   *)
(* and a flush with <<"Ok">> or <<"Err">>; each operation it sees is        *)
(* recorded with its argument and its answer.                               *)

StreamOp(name, buf, reported) == [op |-> name, buf |-> buf, ret |-> reported]

StreamWriteResults(buf) == {<<"Err">>} \cup { <<"Ok", n>> : n \in 0..Len(buf) }
StreamFlushResults == {<<"Ok">>, <<"Err">>}

\* Network::write as it would be if it buffered like the Usb transport
Network_write_buffered(buf, reported) == [ret |-> <<"Ok", Len(buf)>>, ops |-> <<>>]

\* Network::write: self.stream.write(buf)
Network_write(buf, reported) ==
    [ret |-> reported, ops |-> <<StreamOp("write", buf, reported)>>]

\* Network::flush: self.stream.flush()
Network_flush(reported) ==
    [ret |-> reported, ops |-> <<StreamOp("flush", <<>>, reported)>>]

\* File::write: self.fobj.write(buf)
File_write(buf, reported) ==
    [ret |-> reported, ops |-> <<StreamOp("write", buf, reported)>>]

\* File::flush: self.fobj.flush()
File_flush(reported) ==
    [ret |-> reported, ops |-> <<StreamOp("flush", <<>>, reported)>>]

SinkCalled(name, buf, r) ==
    /\ Len(sink.trace) < MaxCalls
    /\ sink' = [sink EXCEPT !.trace = Append(@, Call(name, buf, r))]
    /\ UNCHANGED <<bus, pc, vendor_id, product_id, device_handle, write_endpoint,
                   stream, trace, panic>>

NetworkWrite ==
    /\ sink.kind = "Network"
    /\ \E buf \in Bufs : \E reported \in StreamWriteResults(buf) :
          SinkCalled("write", buf, Network_write(buf, reported))

NetworkFlush ==
    /\ sink.kind = "Network"
    /\ \E reported \in StreamFlushResults :
          SinkCalled("flush", <<>>, Network_flush(reported))

FileWrite ==
    /\ sink.kind = "File"
    /\ \E buf \in Bufs : \E reported \in StreamWriteResults(buf) :
          SinkCalled("write", buf, File_write(buf, reported))

FileFlush ==
    /\ sink.kind = "File"
    /\ \E reported \in StreamFlushResults :
          SinkCalled("flush", <<>>, File_flush(reported))

\* a Network or a File sink just built, and no Usb transport
InitSink ==
    /\ bus = <<>>
    /\ pc = NoUsb.pc
    /\ panic = NoUsb.panic
    /\ vendor_id = NoUsb.vendor_id
    /\ product_id = NoUsb.product_id
    /\ device_handle = NoUsb.device_handle
    /\ write_endpoint = NoUsb.write_endpoint
    /\ stream = NoUsb.stream
    /\ trace = <<>>
    /\ sink \in { [kind |-> k, trace |-> <<>>] : k \in {"Network", "File"} }

NextSink == NetworkWrite \/ NetworkFlush \/ FileWrite \/ FileFlush

SpecSink == InitSink /\ [][NextSink]_vars

-----------------------------------------------------------------------------
(* Reading the trace.                                                       *)

Calls == 1..Len(trace)
Flushes == { k \in Calls : trace[k].call = "flush" }
Writes == { k \in Calls : trace[k].call = "write" }

\* the last flush before the k-th call, 0 if there is none
PrevFlush(k) ==
    LET before == { j \in Flushes : j < k } IN
    IF before = {} THEN 0 ELSE CHOOSE j \in before : \A i \in before : i <= j

\* the bytes of the write calls a+1 .. b, in call order
RECURSIVE Written(_, _)
Written(a, b) ==
    IF b <= a THEN <<>>
    ELSE Written(a, b - 1) \o (IF trace[b].call = "write" THEN trace[b].buf ELSE <<>>)

\* what the writes since the previous flush amount to, just before the k-th call
Pending(k) == Written(PrevFlush(k), k - 1)

OpsOf(k) == trace[k].ops
Bulks(k) == SelectSeq(OpsOf(k), LAMBDA o : o.op = "write_bulk")
CountOp(k, name) == Len(SelectSeq(OpsOf(k), LAMBDA o : o.op = name))

\* every reset and configuration step the k-th call issued succeeded
SetupSucceeded(k) ==
    \A i \in 1..Len(OpsOf(k)) : OpsOf(k)[i].op # "write_bulk" => OpsOf(k)[i].ok

Bound == IsSome(device_handle)

\* the locator discovery yields on this bus, None if it finds no printer
Discovered == find_print_endpoint(bus)

FlushOrder ==
    <<"reset", "set_active_configuration", "claim_interface",
      "set_alternate_setting", "write_bulk">>

-----------------------------------------------------------------------------
(* Claims.                                                                  *)

\* C1: after every flush, whatever its outcome (reset failure included), the
\* pending buffer is empty when control is back with the caller, and a write
\* that follows a flush leaves exactly its own bytes in the buffer.
C1_BufferEmptyAfterEveryFlush ==
    /\ (trace # <<>> /\ Last(trace).call = "flush") => stream = <<>>
    /\ (Len(trace) >= 2 /\ trace[Len(trace) - 1].call = "flush"
            /\ Last(trace).call = "write") => stream = Last(trace).buf

\* C2: while the transport is in use the pending buffer is the concatenation,
\* in call order, of the writes since construction or since the last flush;
\* every write returned Ok with the length of its argument and issued no
\* device operation, whether or not a device is bound.
C2_WriteAccumulates ==
    /\ pc = "ready" => stream = Pending(Len(trace) + 1)
    /\ \A k \in Writes : /\ trace[k].ret = <<"Ok", Len(trace[k].buf)>>
                         /\ OpsOf(k) = <<>>

\* two writes of different bytes since the last flush, on a bound transport
C2_Witness ==
    /\ Bound
    /\ Len(trace) = 3
    /\ trace[1].call = "flush"
    /\ trace[2].call = "write" /\ trace[2].buf = <<27, 64>>
    /\ trace[3].call = "write" /\ trace[3].buf = <<10>>
    /\ stream = <<27, 64, 10>>

\* C3: a flush on a bound transport whose reset and configuration succeed
\* issues exactly one bulk transfer; its payload is everything written since
\* the previous flush, in order, and its target is the endpoint address of
\* the locator discovery found on this bus.
C3_OneTransferOfWholeBuffer ==
    \A k \in Flushes :
        (Bound /\ SetupSucceeded(k)) =>
            /\ Len(Bulks(k)) = 1
            /\ Bulks(k)[1].data = Pending(k)
            /\ IsSome(Discovered)
            /\ Bulks(k)[1].address = Unwrap(Discovered)[1].address

\* write([0x1B,0x40]), write([0x0A]), flush(): one transfer of the three bytes
C3_Witness ==
    /\ Len(trace) = 3
    /\ trace[1].call = "write" /\ trace[1].buf = <<27, 64>>
    /\ trace[2].call = "write" /\ trace[2].buf = <<10>>
    /\ trace[3].call = "flush" /\ trace[3].ret = <<"Ok">>
    /\ Len(Bulks(3)) = 1
    /\ Bulks(3)[1].data = <<27, 64, 10>>
    /\ Bulks(3)[1].n = 3
    /\ Bulks(3)[1].address = Unwrap(write_endpoint).address

\* C4: the device operations of a flush on a bound transport begin with reset
\* and follow the order reset, set_active_configuration, claim_interface,
\* set_alternate_setting, write_bulk; a write_bulk is issued only after the
\* reset and the three configuration steps of the same flush have succeeded.
C4_ResetConfigureTransferOrder ==
    \A k \in Flushes :
        Bound =>
            /\ Len(OpsOf(k)) \in 1..Len(FlushOrder)
            /\ \A i \in 1..Len(OpsOf(k)) : OpsOf(k)[i].op = FlushOrder[i]
            /\ Len(Bulks(k)) > 0 =>
                   /\ Len(OpsOf(k)) = Len(FlushOrder)
                   /\ \A i \in 1..(Len(FlushOrder) - 1) : OpsOf(k)[i].ok

\* two flushes in a row that both transfer: the second resets and configures again
C4_Witness ==
    /\ Len(trace) = 2
    /\ \A k \in {1, 2} :
          /\ trace[k].call = "flush"
          /\ Len(OpsOf(k)) = Len(FlushOrder)
          /\ OpsOf(k)[Len(FlushOrder)].op = "write_bulk"

\* the k-th call is a flush whose write_bulk failed
TransferFailed(k) ==
    /\ k \in Flushes
    /\ Len(Bulks(k)) > 0
    /\ ~Bulks(k)[1].ok

\* the k-th call is a flush one of whose configuration steps failed
ConfigureFailed(k) ==
    /\ k \in Flushes
    /\ \E i \in 1..Len(OpsOf(k)) :
          /\ OpsOf(k)[i].op \in {"set_active_configuration", "claim_interface",
                                 "set_alternate_setting"}
          /\ ~OpsOf(k)[i].ok

\* the k-th call is a flush whose reset failed
ResetFailed(k) ==
    /\ k \in Flushes
    /\ \E i \in 1..Len(OpsOf(k)) : OpsOf(k)[i].op = "reset" /\ ~OpsOf(k)[i].ok

\* the k-th call left the buffer empty and the transport ready for more calls
LeftClean(k) == k = Len(trace) => (stream = <<>> /\ pc = "ready")

\* the flush that follows the k-th call starts with a reset and, when its
\* reset and configuration succeed, transfers exactly the bytes written
\* after the k-th call
NextCycleIsFresh(k) ==
    \A j \in Flushes :
        PrevFlush(j) = k =>
            /\ Len(OpsOf(j)) >= 1
            /\ OpsOf(j)[1].op = "reset"
            /\ SetupSucceeded(j) =>
                   /\ [i \in 1..Len(OpsOf(j)) |-> OpsOf(j)[i].op] = FlushOrder
                   /\ OpsOf(j)[Len(FlushOrder)].data = Written(k, j - 1)

\* C5: a flush whose bulk transfer fails returns Err and leaves the buffer
\* empty and the transport usable; the next flush runs reset, configure and
\* transfer again, with only the bytes written after the failed flush.
C5_TransferFailureLeavesNoResidue ==
    \A k \in Calls :
        TransferFailed(k) =>
            /\ trace[k].ret = <<"Err">>
            /\ LeftClean(k)
            /\ NextCycleIsFresh(k)

\* write, flush with a failed transfer, write, flush that transfers the second write only
C5_Witness ==
    /\ Len(trace) = 4
    /\ trace[1].call = "write" /\ trace[1].buf = <<27, 64>>
    /\ TransferFailed(2)
    /\ trace[3].call = "write" /\ trace[3].buf = <<10>>
    /\ trace[4].call = "flush" /\ trace[4].ret = <<"Ok">>
    /\ Bulks(4) # <<>> /\ Bulks(4)[1].data = <<10>>

\* C6: a flush whose reset fails issues no further device operation, clears
\* the buffer and returns the failure as an Err value.
C6_ResetFailureReturnsErr ==
    \A k \in Calls :
        ResetFailed(k) =>
            /\ Len(OpsOf(k)) = 1
            /\ trace[k].ret = <<"Err">>
            /\ k = Len(trace) => stream = <<>>

\* C7: a flush in which a configuration step fails returns Err, issues no
\* bulk transfer, and leaves the buffer empty and the transport usable for
\* the next write/flush cycle.
C7_ConfigureFailureAbortsFlush ==
    \A k \in Calls :
        ConfigureFailed(k) =>
            /\ trace[k].ret = <<"Err">>
            /\ Bulks(k) = <<>>
            /\ LeftClean(k)
            /\ NextCycleIsFresh(k)

\* write, flush failing at claim_interface, write, flush that transfers the second write only
C7_Witness ==
    /\ Len(trace) = 4
    /\ trace[1].call = "write" /\ trace[1].buf = <<10>>
    /\ ConfigureFailed(2)
    /\ Last(OpsOf(2)).op = "claim_interface"
    /\ trace[3].call = "write" /\ trace[3].buf = <<27, 64>>
    /\ trace[4].call = "flush" /\ trace[4].ret = <<"Ok">>
    /\ Bulks(4) # <<>> /\ Bulks(4)[1].data = <<27, 64>>

\* C8: on a transport built where discovery found no printer, every flush
\* returns Ok, issues no device operation and leaves the buffer empty.
C8_NoDeviceFlushDiscards ==
    (pc # "start" /\ Discovered = None) =>
        \A k \in Flushes :
            /\ trace[k].ret = <<"Ok">>
            /\ OpsOf(k) = <<>>
            /\ k = Len(trace) => stream = <<>>

\* no printer on the bus: write, flush, write, flush, the buffer dropped each time
C8_Witness ==
    /\ Discovered = None
    /\ bus # <<>>
    /\ Len(trace) = 4
    /\ trace[1].call = "write" /\ trace[1].buf = <<27, 64>>
    /\ trace[2].call = "flush"
    /\ trace[3].call = "write" /\ trace[3].buf = <<10>>
    /\ trace[4].call = "flush"
    /\ stream = <<>>

\* C9: no flush issues more than one reset, one of each configuration step
\* and one bulk transfer, and the payload of a transfer is made of the writes
\* since the previous flush only: bytes handed to an earlier flush, whether
\* it failed at reset, configuration or transfer, are never in a later payload.
C9_NoByteSentTwice ==
    \A k \in Flushes :
        /\ \A i \in 1..Len(FlushOrder) : CountOp(k, FlushOrder[i]) <= 1
        /\ \A i \in 1..Len(Bulks(k)) : Bulks(k)[i].data = Pending(k)

\* bytes handed to a flush whose transfer failed are not in the payload of the flush after it
C9_Witness ==
    /\ Len(trace) = 3
    /\ trace[1].call = "write" /\ trace[1].buf = <<27, 64>>
    /\ TransferFailed(2) /\ Bulks(2)[1].data = <<27, 64>>
    /\ trace[3].call = "flush"
    /\ Bulks(3) # <<>> /\ Bulks(3)[1].data = <<>>

-----------------------------------------------------------------------------
(* Endpoint selection, stated over the positions of a device's endpoint     *)
(* descriptors: <<n, i, s, e>> is the e-th endpoint of the s-th interface   *)
(* descriptor of the i-th interface of the n-th configuration.              *)

Positions(device) ==
    UNION { UNION { UNION { { <<n, i, s, e>> :
                e \in 1..Len(device.configs[n].interfaces[i][s].endpoint_descriptors) }
              : s \in 1..Len(device.configs[n].interfaces[i]) }
            : i \in 1..Len(device.configs[n].interfaces) }
          : n \in 1..Len(device.configs) }

ConfigAt(device, p) == device.configs[p[1]]
InterfaceDescAt(device, p) == device.configs[p[1]].interfaces[p[2]][p[3]]
EndpointAt(device, p) == InterfaceDescAt(device, p).endpoint_descriptors[p[4]]

\* the OUT endpoints of the configurations whose descriptor can be read
OutPositions(device) ==
    { p \in Positions(device) :
        ConfigAt(device, p).readable /\ EndpointAt(device, p).direction = "Out" }

\* p comes before q in (configuration, interface, alternate setting, endpoint) order
Precedes(p, q) ==
    \E k \in 1..4 : p[k] < q[k] /\ \A j \in 1..(k - 1) : p[j] = q[j]

IsFirstOut(device, p) ==
    /\ p \in OutPositions(device)
    /\ \A q \in OutPositions(device) : q = p \/ Precedes(p, q)

\* the device selection picks, None if there is none
Selected == find_print_device(bus)

\* C10: the locator a transport is built with is that of the first OUT
\* endpoint of the selected device in (configuration, interface, alternate
\* setting, endpoint) order, over the configurations that can be read: it
\* carries that configuration's number, the interface descriptor's interface
\* and setting numbers and the endpoint's address; with no such endpoint there
\* is no locator.  The locator is thus a function of the bus alone.
C10_FirstOutEndpointSelected ==
    pc = "ready" =>
        IF Selected = None THEN write_endpoint = None
        ELSE LET device == Unwrap(Selected)[1] IN
             /\ OutPositions(device) = {} => write_endpoint = None
             /\ \A p \in Positions(device) :
                   IsFirstOut(device, p) =>
                       write_endpoint =
                           Some([config  |-> ConfigAt(device, p).number,
                                 iface   |-> InterfaceDescAt(device, p).interface_number,
                                 setting |-> InterfaceDescAt(device, p).setting_number,
                                 address |-> EndpointAt(device, p).address])

\* a device whose first interface has no endpoint and whose second has two
\* OUT endpoints: the locator is that of the first of the two
C10_Witness ==
    /\ pc = "ready"
    /\ Len(bus) = 1
    /\ Cardinality(OutPositions(bus[1])) = 2
    /\ IsFirstOut(bus[1], <<1, 2, 1, 1>>)
    /\ write_endpoint = Some([config |-> 1, iface |-> 1, setting |-> 0, address |-> 2])

-----------------------------------------------------------------------------
(* Device selection.                                                        *)

\* the interface descriptors of a device that the scan can read
ReadableDescs(device) ==
    IF ~device.readable THEN {}
    ELSE UNION { UNION { { device.configs[n].interfaces[i][a]
                           : a \in 1..Len(device.configs[n].interfaces[i]) }
                         : i \in 1..Len(device.configs[n].interfaces) }
                 : n \in { m \in 1..Len(device.configs) : device.configs[m].readable } }

\* the device shows an interface descriptor of the printer class
ShowsPrinter(device) ==
    \E desc \in ReadableDescs(device) : desc.class_code = PrinterClass

Printers == { d \in 1..Len(bus) : ShowsPrinter(bus[d]) }
IsFirstPrinter(d) == d \in Printers /\ \A e \in Printers : d <= e

\* C11: device selection yields the first device, in enumeration order, that
\* shows an interface descriptor of class 7 in any of its configurations, and
\* none if no device does; a transport that is bound is bound to the identity
\* of that device, never to that of a device before it.
C11_FirstPrinterDeviceSelected ==
    /\ Printers = {} => Selected = None
    /\ \A d \in 1..Len(bus) :
          IsFirstPrinter(d) =>
              /\ IsSome(Selected)
              /\ Unwrap(Selected)[1] = bus[d]
              /\ Unwrap(Selected)[2].vendor_id = bus[d].vendor_id
              /\ Bound => vendor_id = Some(bus[d].vendor_id)
    /\ Bound => Printers # {}

\* a readable device of another class, then a printer: the transport is bound to the second
C11_Witness ==
    /\ pc = "ready"
    /\ Len(bus) = 2
    /\ bus[1].readable /\ ~ShowsPrinter(bus[1])
    /\ bus[1].configs[1].interfaces[1][1].endpoint_descriptors # <<>>
    /\ ShowsPrinter(bus[2])
    /\ Bound
    /\ vendor_id = Some(bus[2].vendor_id)
    /\ bus[1].vendor_id # bus[2].vendor_id

-----------------------------------------------------------------------------
(* The locator and construction.                                            *)

\* the locator names position p of the device: its configuration, interface
\* and setting numbers and its endpoint address are those found at p
LocatorAt(device, locator, p) ==
    /\ locator.config = ConfigAt(device, p).number
    /\ locator.iface = InterfaceDescAt(device, p).interface_number
    /\ locator.setting = InterfaceDescAt(device, p).setting_number
    /\ locator.address = EndpointAt(device, p).address

\* C12: the endpoint address of a stored locator is that of an endpoint that
\* is OUT and of bulk transfer type, on the configuration, interface and
\* alternate setting the locator stores.
C12_LocatorIsBulkOut ==
    IsSome(write_endpoint) =>
        /\ IsSome(Selected)
        /\ \E p \in Positions(Unwrap(Selected)[1]) :
              /\ LocatorAt(Unwrap(Selected)[1], Unwrap(write_endpoint), p)
              /\ EndpointAt(Unwrap(Selected)[1], p).direction = "Out"
              /\ EndpointAt(Unwrap(Selected)[1], p).transfer_type = "Bulk"

\* discovery has nothing to return: no device shows a printer interface, or
\* the selected device has no OUT endpoint the scan can read
NothingToFind ==
    \/ Printers = {}
    \/ IsSome(Selected) /\ OutPositions(Unwrap(Selected)[1]) = {}

C14_OpenFailureIsReported ==
    (IsSome(Discovered) /\ panic = Some("open_device_with_vid_pid")) =>
        pc = "failed"

-----------------------------------------------------------------------------
(* More on flush.                                                           *)

\* the k-th call is a flush whose write_bulk reported fewer bytes than its payload
ShortTransfer(k) ==
    /\ k \in Flushes
    /\ Len(Bulks(k)) > 0
    /\ Bulks(k)[1].ok
    /\ Bulks(k)[1].n < Len(Bulks(k)[1].data)

\* C15: a flush whose bulk transfer reports fewer bytes than the payload
\* issues no second transfer and returns Ok with the buffer empty; the
\* payload of every later transfer holds only the bytes written since the
\* flush before it, so the bytes left over are never sent.
C15_ShortTransferIsNotCompleted ==
    \A k \in Calls :
        ShortTransfer(k) =>
            /\ Len(Bulks(k)) = 1
            /\ trace[k].ret = <<"Ok">>
            /\ LeftClean(k)
            /\ \A j \in Flushes :
                  j > k => \A i \in 1..Len(Bulks(j)) : Bulks(j)[i].data = Pending(j)

\* two bytes written, one reported transferred; the next flush sends only the later write
C15_Witness ==
    /\ Len(trace) = 4
    /\ trace[1].call = "write" /\ trace[1].buf = <<27, 64>>
    /\ ShortTransfer(2) /\ Bulks(2)[1].n = 1
    /\ trace[3].call = "write" /\ trace[3].buf = <<10>>
    /\ trace[4].call = "flush"
    /\ Bulks(4) # <<>> /\ Bulks(4)[1].data = <<10>>

ConfigureOrder ==
    <<"set_active_configuration", "claim_interface", "set_alternate_setting">>

\* the configuration steps the k-th call issued
ConfigureOps(k) == SelectSeq(OpsOf(k), LAMBDA o : o.op \in {
    "set_active_configuration", "claim_interface", "set_alternate_setting"})

\* C17: the configuration steps of a flush are a prefix of
\* set_active_configuration, claim_interface, set_alternate_setting, in that
\* order, with the locator's numbers; a step that fails is the last one
\* attempted, and the failure is the result: the flush returns Err and no
\* transfer follows.
C17_ConfigureStopsAtFirstFailure ==
    \A k \in Flushes :
        LET cfg == ConfigureOps(k) IN
        /\ Len(cfg) <= Len(ConfigureOrder)
        /\ \A i \in 1..Len(cfg) :
              /\ cfg[i].op = ConfigureOrder[i]
              /\ ~cfg[i].ok =>
                    /\ i = Len(cfg)
                    /\ Bulks(k) = <<>>
                    /\ trace[k].ret = <<"Err">>
        /\ Len(cfg) >= 1 => cfg[1].config = Unwrap(write_endpoint).config
        /\ Len(cfg) >= 2 => cfg[2].iface = Unwrap(write_endpoint).iface
        /\ Len(cfg) >= 3 => /\ cfg[3].iface = Unwrap(write_endpoint).iface
                            /\ cfg[3].setting = Unwrap(write_endpoint).setting

\* a flush in which set_active_configuration fails: nothing is claimed
C17_Witness ==
    /\ Len(trace) = 1
    /\ ConfigureFailed(1)
    /\ Len(ConfigureOps(1)) = 1
    /\ ~ConfigureOps(1)[1].ok
    /\ trace[1].ret = <<"Err">>

\* the handle is there exactly when the locator is
HandleIffLocator == IsSome(device_handle) <=> IsSome(write_endpoint)

\* no flush went through the arm "handle present, locator absent": a
\* successful reset as the only operation of a flush that returned Ok
ArmNeverTaken ==
    \A k \in Flushes :
        ~(Len(OpsOf(k)) = 1 /\ OpsOf(k)[1].op = "reset" /\ OpsOf(k)[1].ok
            /\ trace[k].ret = <<"Ok">>)

\* C19: in every state the device handle is present exactly when the locator
\* is; once the transport is built no step changes the handle or any field of
\* the locator; and the flush arm for a handle without a locator is never taken.
C19_HandleAndLocatorFixed ==
    /\ [](HandleIffLocator /\ ArmNeverTaken)
    /\ [][pc # "start" =>
            (device_handle' = device_handle /\ write_endpoint' = write_endpoint)]_vars

\* a bound transport after a write and a failed flush: handle and locator as discovery set them
C19_Witness ==
    /\ Len(trace) = 2
    /\ trace[1].call = "write"
    /\ TransferFailed(2)
    /\ IsSome(device_handle)
    /\ write_endpoint = Some(Unwrap(Discovered)[1])

\* C20: a flush on a bound transport with nothing written since construction
\* or since the previous flush still resets the device and, when reset and
\* configuration succeed, runs all three configuration steps and issues one
\* bulk transfer, of an empty payload.
C20_EmptyFlushStillTransfers ==
    \A k \in Flushes :
        (Bound /\ Pending(k) = <<>>) =>
            /\ Len(OpsOf(k)) >= 1
            /\ OpsOf(k)[1].op = "reset"
            /\ SetupSucceeded(k) =>
                  /\ [i \in 1..Len(OpsOf(k)) |-> OpsOf(k)[i].op] = FlushOrder
                  /\ OpsOf(k)[Len(FlushOrder)].data = <<>>

\* the first call on a bound transport is a flush: five operations, an empty payload
C20_Witness ==
    /\ Len(trace) = 1
    /\ trace[1].call = "flush" /\ trace[1].ret = <<"Ok">>
    /\ Len(OpsOf(1)) = Len(FlushOrder)
    /\ Bulks(1)[1].data = <<>>
    /\ Bulks(1)[1].n = 0

-----------------------------------------------------------------------------
(* Descriptors that cannot be read.                                         *)

\* the configurations of a device whose number is c
ConfigsNumbered(device, c) ==
    { n \in 1..Len(device.configs) : device.configs[n].number = c }

\* C18: the scan passes over a device whose device descriptor cannot be read
\* and over a configuration whose descriptor cannot be read: a printer that
\* comes after unreadable devices only is selected, also when its printer
\* interface comes after an unreadable configuration; a locator is never
\* taken from an unreadable configuration, and one is found whenever a
\* readable configuration of the selected device has an OUT endpoint; with
\* every device unreadable the scan ends with the empty result and
\* construction (the bus having been enumerated) with an unbound transport.
C18_UnreadableDescriptorsSkipped ==
    /\ \A d \in 1..Len(bus) :
          (ShowsPrinter(bus[d]) /\ \A e \in 1..(d - 1) : ~bus[e].readable) =>
              /\ IsSome(Selected)
              /\ Unwrap(Selected)[1] = bus[d]
              /\ Unwrap(Selected)[2].vendor_id = bus[d].vendor_id
    /\ IsSome(Selected) =>
          LET device == Unwrap(Selected)[1] IN
          /\ OutPositions(device) # {} => IsSome(Discovered)
          /\ IsSome(Discovered) =>
                \A n \in ConfigsNumbered(device, Unwrap(Discovered)[1].config) :
                    device.configs[n].readable
    /\ (\A d \in 1..Len(bus) : ~bus[d].readable) =>
          /\ Selected = None
          /\ Discovered = None
          /\ (pc # "start" /\ panic # Some("devices")) =>
                (pc = "ready" /\ device_handle = None /\ write_endpoint = None)

\* an unreadable device, then a printer: the transport is bound to the printer
C18_Witness ==
    /\ pc = "ready"
    /\ Len(bus) = 2
    /\ ~bus[1].readable
    /\ \E desc \in ReadableDescs([bus[1] EXCEPT !.readable = TRUE]) :
          desc.class_code = PrinterClass
    /\ ShowsPrinter(bus[2])
    /\ Bound
    /\ vendor_id = Some(bus[2].vendor_id)
    /\ bus[1].vendor_id # bus[2].vendor_id

-----------------------------------------------------------------------------
(* The pass-through sinks.                                                  *)

\* what the sink was asked to do, call by call
SinkInvoked == [k \in 1..Len(sink.trace) |-> <<sink.trace[k].call, sink.trace[k].buf>>]

\* what the underlying stream saw, operation by operation
RECURSIVE StreamSawUpTo(_)
StreamSawUpTo(k) ==
    IF k = 0 THEN <<>>
    ELSE StreamSawUpTo(k - 1)
         \o [i \in 1..Len(sink.trace[k].ops) |->
                <<sink.trace[k].ops[i].op, sink.trace[k].ops[i].buf>>]

\* C16: a Network or File sink buffers nothing: every write and every flush
\* reaches the underlying stream at once, as one operation with the same
\* bytes, and returns exactly what the stream reported (count or error); the
\* operations the stream has seen are the calls made on the sink, in order.
C16_SinksPassThrough ==
    /\ \A k \in 1..Len(sink.trace) :
          /\ Len(sink.trace[k].ops) = 1
          /\ sink.trace[k].ops[1].op = sink.trace[k].call
          /\ sink.trace[k].ops[1].buf = sink.trace[k].buf
          /\ sink.trace[k].ret = sink.trace[k].ops[1].ret
    /\ StreamSawUpTo(Len(sink.trace)) = SinkInvoked

\* a Network sink whose stream took one of two bytes, then failed a write, then flushed
C16_Witness ==
    /\ sink.kind = "Network"
    /\ Len(sink.trace) = 3
    /\ sink.trace[1].call = "write" /\ sink.trace[1].buf = <<27, 64>>
    /\ sink.trace[1].ret = <<"Ok", 1>>
    /\ sink.trace[2].call = "write" /\ sink.trace[2].ret = <<"Err">>
    /\ sink.trace[3].call = "flush" /\ sink.trace[3].ret = <<"Ok">>
    /\ StreamSawUpTo(3) = <<<<"write", <<27, 64>>>>, <<"write", sink.trace[2].buf>>,
                            <<"flush", <<>>>>>>

=============================================================================
